---- MODULE Spec2Model ----
(***************************************************************************)
(* Model of checkov/common/runners/runner_registry.py: the RunnerRegistry  *)
(* orchestrator, the plan-enrichment step, the skip reconciler and the     *)
(* report printer with its exit code.                                      *)
(*                                                                         *)
(* Python values are represented as follows.  A str that the code tests    *)
(* with `in` (check ids, directive ids, check types, the framework         *)
(* selection) is a sequence of one-character strings, so that `in` is      *)
(* substring containment.  Other strs are TLA+ strings.  A dict is a       *)
(* function on its set of keys; a list is a sequence; an object is a       *)
(* record that carries its identity in the field oid.  TLC compares only   *)
(* values of one shape, so None is written in the shape of the slot that   *)
(* holds it (NoneStr, NoneSeq, NoneList, NoneObj).                         *)
(***************************************************************************)
EXTENDS Integers, Sequences, FiniteSets, TLC

VARIABLES
    report,              \* the Report being enriched / reconciled (scan_report in run)
    enriched_resources,  \* the entity context index (a defaultdict(dict))
    report0,             \* history: report as it was passed in
    enriched_resources0, \* history: the index as it was passed in
    report1,             \* history: report as handle_skipped_checks received it
    hstatus,             \* position in the enrich/reconcile call sequence, or the exception raised
    evals,               \* history: <<record oid, directive position>> for each evaluation of line 174
    scan_reports,        \* print_reports argument / RunnerRegistry.scan_reports
    args,                \* print_reports argument (output, soft_fail, quiet, compact)
    url,                 \* print_reports argument
    out,                 \* what print_reports rendered, in order
    exit_code,           \* what print_reports returned
    pstatus,             \* position of print_reports
    runners,             \* RunnerRegistry.runners
    runner_filter,       \* RunnerRegistry.runner_filter
    runners0,            \* history: runners as passed to the constructor
    ncalls,              \* history: completed calls of filter_runner_framework
    pc,                  \* position inside RunnerRegistry.run
    ri,                  \* index of the runner the loop of run is at
    events,              \* history: the calls made by run, in order
    run_args,            \* arguments of run (guidelines, repo_root_for_plan_enrichment)
    ret                  \* what run returned

vars == <<report, enriched_resources, report0, enriched_resources0, report1, hstatus, evals,
          scan_reports, args, url, out, exit_code, pstatus,
          runners, runner_filter, runners0, ncalls,
          pc, ri, events, run_args, ret>>

handleVars == <<report, enriched_resources, report0, enriched_resources0, report1, hstatus, evals>>
printVars  == <<scan_reports, args, url, out, exit_code, pstatus>>
filterVars == <<runners, runner_filter, runners0, ncalls>>
runVars    == <<pc, ri, events, run_args, ret>>

----------------------------------------------------------------------------
(* Bounds of the model *)

MaxFailed  == 3   \* records in failed_checks of an input report
MaxSkips   == 2   \* skip directives on one resource
MaxReports == 3   \* reports handed to print_reports
MaxRunners == 3   \* runners handed to the constructor
MaxCalls   == 2   \* calls of filter_runner_framework

----------------------------------------------------------------------------
(* Python values *)

NoneStr  == "None"
NoneSeq  == <<"None">>
NoneList == <<[none |-> TRUE]>>
NoneObj  == [none |-> TRUE]
EmptyDict == <<>>

\* x in s, for two strs: substring containment
In(x, s) ==
    \E k \in 0..(Len(s) - Len(x)) : SubSeq(s, k + 1, k + Len(x)) = x

\* d[k] = v
DictSet(d, k, v) ==
    [x \in (DOMAIN d) \cup {k} |-> IF x = k THEN v ELSE d[x]]

Range(s) == {s[i] : i \in DOMAIN s}

\* positions of the object rec in the list l (Record defines no __eq__: == is identity)
Positions(l, rec) == {i \in DOMAIN l : l[i].oid = rec.oid}

\* l.remove(rec), for rec in l: drops the first element equal to rec
ListRemove(l, rec) ==
    LET p == CHOOSE i \in Positions(l, rec) : \A j \in Positions(l, rec) : i <= j
    IN  SubSeq(l, 1, p - 1) \o SubSeq(l, p + 1, Len(l))

----------------------------------------------------------------------------
(* Reports and records *)

CheckIds   == {<<"A">>, <<"B">>}
PassedId   == <<"C">>
Resources  == {"aws_s3_bucket.r1", "aws_s3_bucket.r2"}
Directives == {[id |-> <<"A">>,      suppress_comment |-> "x"],
               [id |-> <<"B">>,      suppress_comment |-> "y"],
               [id |-> <<"A", "B">>, suppress_comment |-> "z"]}

\* a Record as a runner builds it from a plan file
MkRecord(oid, check_id, resource, result) ==
    [oid             |-> oid,
     check_id        |-> check_id,
     resource        |-> resource,
     check_result    |-> [result |-> result],
     file_path       |-> "tfplan.json",
     file_line_range |-> <<0, 0>>,
     code_block      |-> "plan",
     guideline       |-> NoneStr]

\* Report(check_type)
Report(check_type) ==
    [check_type     |-> check_type,
     failed_checks  |-> <<>>,
     passed_checks  |-> <<>>,
     skipped_checks |-> <<>>]

\* Report.add_record: the record joins the collection of its result
add_record(rep, record) ==
    CASE record.check_result["result"] = "PASSED" ->
             [rep EXCEPT !.passed_checks = Append(@, record)]
      [] record.check_result["result"] = "FAILED" ->
             [rep EXCEPT !.failed_checks = Append(@, record)]
      [] record.check_result["result"] = "SKIPPED" ->
             [rep EXCEPT !.skipped_checks = Append(@, record)]

\* the entry get_enriched_resources stores for an entity
IndexEntry(resource, skipped_checks) ==
    [entity_code_lines  |-> "hcl of " \o resource,
     entity_lines_range |-> IF resource = "aws_s3_bucket.r1" THEN <<1, 5>> ELSE <<7, 9>>,
     scanned_file       |-> "main.tf",
     skipped_checks     |-> skipped_checks]

----------------------------------------------------------------------------
(* enrich_plan_report *)

RECURSIVE EnrichLoop(_, _, _)
EnrichLoop(failed, idx, i) ==
    IF i > Len(failed) THEN failed
    ELSE LET record == failed[i]
             present == record.resource \in DOMAIN idx
         IN  IF present /\ DOMAIN idx[record.resource] # {}
             THEN LET enriched_resource == idx[record.resource]
                  IN  EnrichLoop(
                        [failed EXCEPT ![i] =
                            [record EXCEPT
                                !.file_path       = enriched_resource["scanned_file"],
                                !.file_line_range = enriched_resource["entity_lines_range"],
                                !.code_block      = enriched_resource["entity_code_lines"]]],
                        idx, i + 1)
             ELSE EnrichLoop(failed, idx, i + 1)

\* a variant that enriches the passed records as well
enrich_plan_report_AllVerdicts(rep, idx) ==
    [rep EXCEPT !.failed_checks = EnrichLoop(rep.failed_checks, idx, 1),
                !.passed_checks = EnrichLoop(rep.passed_checks, idx, 1)]

enrich_plan_report(rep, idx) ==
    [rep EXCEPT !.failed_checks = EnrichLoop(rep.failed_checks, idx, 1)]

----------------------------------------------------------------------------
(* handle_skipped_checks *)

\* the loop state: the report, the index, the evaluations made, the exception raised
HState(rep, idx) == [report |-> rep, index |-> idx, evals |-> <<>>, raised |-> "no"]

\* a variant without line 176: the record is added to skipped and stays in failed
SkipRecord_KeepsFailed(rep, record, skip) ==
    LET skipped == [record EXCEPT !.check_result =
                       DictSet(DictSet(@, "result", "SKIPPED"),
                               "suppress_comment", skip["suppress_comment"])]
    IN  add_record(rep, skipped)

\* lines 176-179: move the record from failed_checks to the collection of SKIPPED
SkipRecord(rep, record, skip) ==
    LET skipped == [record EXCEPT !.check_result =
                       DictSet(DictSet(@, "result", "SKIPPED"),
                               "suppress_comment", skip["suppress_comment"])]
    IN  add_record([rep EXCEPT !.failed_checks = ListRemove(@, record)], skipped)

\* lines 173-179: the directives of the record's resource, in order
RECURSIVE SkipLoop(_, _, _, _)
SkipLoop(st, record, resource_skips, j) ==
    IF j > Len(resource_skips) THEN st
    ELSE LET skip == resource_skips[j]
             st1  == [st EXCEPT !.evals = Append(@, <<record.oid, j>>)]
         IN  IF In(record.check_id, skip["id"])
             THEN IF Positions(st1.report.failed_checks, record) = {}
                  THEN [st1 EXCEPT !.raised = "ValueError"]
                  ELSE SkipLoop([st1 EXCEPT !.report = SkipRecord(@, record, skip)],
                                record, resource_skips, j + 1)
             ELSE SkipLoop(st1, record, resource_skips, j + 1)

\* lines 171-172: the list iterator reads failed_checks[i] of the live list
RECURSIVE RecordLoop(_, _)
RecordLoop(st, i) ==
    IF st.raised # "no" \/ i > Len(st.report.failed_checks) THEN st
    ELSE LET record == st.report.failed_checks[i]
             r      == record.resource
         IN  IF r \notin DOMAIN st.index
             THEN \* defaultdict: the key is created with {} and {}["skipped_checks"] raises
                  [st EXCEPT !.index = DictSet(@, r, EmptyDict), !.raised = "KeyError"]
             ELSE IF "skipped_checks" \notin DOMAIN st.index[r]
             THEN [st EXCEPT !.raised = "KeyError"]
             ELSE IF st.index[r]["skipped_checks"] = NoneList
             THEN [st EXCEPT !.raised = "TypeError"]
             ELSE RecordLoop(SkipLoop(st, record, st.index[r]["skipped_checks"], 1), i + 1)

handle_skipped_checks(rep, idx) == RecordLoop(HState(rep, idx), 1)

----------------------------------------------------------------------------
(* Inputs of the enrich / reconcile steps *)

Pairs == CheckIds \X Resources

\* the failed collections: records of distinct (check_id, resource) pairs
FailedInputs ==
    {s \in UNION {[1..n -> Pairs] : n \in 0..MaxFailed} :
        \A i, j \in DOMAIN s : i # j => s[i] # s[j]}

SkipLists ==
    {NoneList} \cup UNION {[1..n -> Directives] : n \in 0..MaxSkips}

IndexInputs ==
    UNION {{[r \in D |-> IndexEntry(r, f[r])] : f \in [D -> SkipLists]} : D \in SUBSET Resources}

ReportInput(pairs, withPassed, withSkipped) ==
    [check_type     |-> <<"t">>,
     failed_checks  |-> [i \in DOMAIN pairs |-> MkRecord(i, pairs[i][1], pairs[i][2], "FAILED")],
     passed_checks  |-> IF withPassed
                        THEN <<MkRecord(MaxFailed + 1, PassedId, "aws_s3_bucket.r1", "PASSED")>>
                        ELSE <<>>,
     skipped_checks |-> IF withSkipped
                        THEN <<[MkRecord(MaxFailed + 2, PassedId, "aws_s3_bucket.r2", "SKIPPED")
                                  EXCEPT !.check_result =
                                      DictSet(@, "suppress_comment", "inline")]>>
                        ELSE <<>>]

IdleHandle ==
    /\ report = Report(NoneSeq)
    /\ enriched_resources = EmptyDict
    /\ report0 = Report(NoneSeq)
    /\ enriched_resources0 = EmptyDict
    /\ report1 = Report(NoneSeq)
    /\ hstatus = "idle"
    /\ evals = <<>>

IdlePrint ==
    /\ scan_reports = <<>>
    /\ args = NoneObj
    /\ url = NoneStr
    /\ out = <<>>
    /\ exit_code = 0
    /\ pstatus = "idle"

IdleFilter ==
    /\ runners = <<>>
    /\ runner_filter = NoneObj
    /\ runners0 = <<>>
    /\ ncalls = 0

IdleRun ==
    /\ pc = "idle"
    /\ ri = 0
    /\ events = <<>>
    /\ run_args = NoneObj
    /\ ret = NoneList

InitHandle ==
    /\ \E pairs \in FailedInputs, p \in BOOLEAN, s \in BOOLEAN :
          /\ report = ReportInput(pairs, p, s)
          /\ report0 = report
          /\ report1 = report
    /\ enriched_resources \in IndexInputs
    /\ enriched_resources0 = enriched_resources
    /\ hstatus = "start"
    /\ evals = <<>>
    /\ IdlePrint /\ IdleFilter /\ IdleRun

\* enriched_report = enrich_plan_report(scan_report, enriched_resources)
EnrichPlanReport ==
    /\ hstatus = "start"
    /\ report' = enrich_plan_report(report, enriched_resources)
    /\ hstatus' = "enriched"
    /\ UNCHANGED <<enriched_resources, report0, enriched_resources0, report1, evals>>
    /\ UNCHANGED <<printVars, filterVars, runVars>>

\* handle_skipped_checks(report, enriched_resources), returning or raising
HandleSkippedChecks ==
    /\ hstatus \in {"start", "enriched"}
    /\ LET st == handle_skipped_checks(report, enriched_resources)
       IN  /\ report' = st.report
           /\ enriched_resources' = st.index
           /\ evals' = st.evals
           /\ hstatus' = IF st.raised = "no" THEN "returned" ELSE st.raised
    /\ report1' = report
    /\ UNCHANGED <<report0, enriched_resources0>>
    /\ UNCHANGED <<printVars, filterVars, runVars>>

NextHandle == EnrichPlanReport \/ HandleSkippedChecks

SpecHandle == InitHandle /\ [][NextHandle]_vars

----------------------------------------------------------------------------
(* print_reports *)

OUTPUT_CHOICES == {"cli", "json", "junitxml", "github_failed_only"}

\* Report.is_empty: no record in any of the three collections
is_empty(rep) ==
    Len(rep.passed_checks) + Len(rep.failed_checks) + Len(rep.skipped_checks) = 0

\* Report.get_exit_code(soft_fail)
get_exit_code(rep, soft_fail) ==
    IF soft_fail THEN 0
    ELSE IF Len(rep.failed_checks) > 0 THEN 1
    ELSE 0

\* Report.get_dict(is_quiet): the structured content that json.dumps serializes
get_dict(rep, is_quiet) ==
    [check_type |-> rep.check_type,
     is_quiet   |-> is_quiet,
     results    |-> [passed_checks  |-> rep.passed_checks,
                     failed_checks  |-> rep.failed_checks,
                     skipped_checks |-> rep.skipped_checks]]

\* the locals of print_reports after line 62
PState == [out |-> <<>>, exit_codes |-> <<>>, report_jsons |-> <<>>, junit_reports |-> <<>>]

\* lines 64-75: the rendering of one report that is not empty
RenderReport(st, rep, a, u) ==
    IF a.output = "json"
    THEN [st EXCEPT !.report_jsons = Append(@, get_dict(rep, a.quiet))]
    ELSE IF a.output = "junitxml"
    THEN [st EXCEPT !.junit_reports = Append(@, rep)]
    ELSE IF a.output = "github_failed_only"
    THEN [st EXCEPT !.out = Append(@, [kind |-> "github_md", report |-> rep])]
    ELSE LET console == [kind |-> "console", report |-> rep,
                         is_quiet |-> a.quiet, is_compact |-> a.compact]
         IN  IF u # NoneStr
             THEN [st EXCEPT !.out = @ \o <<console, [kind |-> "url", url |-> u]>>]
             ELSE [st EXCEPT !.out = Append(@, console)]

\* lines 63-76
RECURSIVE ReportLoop(_, _, _, _, _)
ReportLoop(st, reports, a, u, i) ==
    IF i > Len(reports) THEN st
    ELSE LET rep == reports[i]
             st1 == IF ~is_empty(rep) THEN RenderReport(st, rep, a, u) ELSE st
         IN  ReportLoop([st1 EXCEPT !.exit_codes = Append(@, get_exit_code(rep, a.soft_fail))],
                        reports, a, u, i + 1)

\* lines 82-85
RECURSIVE MergeReports(_, _, _)
MergeReports(master_report, junit_reports, i) ==
    IF i > Len(junit_reports) THEN master_report
    ELSE MergeReports(
            [master_report EXCEPT
                !.skipped_checks = @ \o junit_reports[i].skipped_checks,
                !.passed_checks  = @ \o junit_reports[i].passed_checks,
                !.failed_checks  = @ \o junit_reports[i].failed_checks],
            junit_reports, i + 1)

\* lines 77-86
JunitOutput(junit_reports) ==
    IF Len(junit_reports) = 1
    THEN <<[kind |-> "junit_xml", report |-> junit_reports[1]]>>
    ELSE <<[kind |-> "junit_xml", report |-> MergeReports(Report(NoneSeq), junit_reports, 1)]>>

\* a variant that never unwraps
JsonOutput_AlwaysArray(report_jsons) ==
    <<[kind |-> "json", shape |-> "array", items |-> report_jsons]>>

\* lines 87-91: json.dumps of the one dict, or of the list of dicts
JsonOutput(report_jsons) ==
    IF Len(report_jsons) = 1
    THEN <<[kind |-> "json", shape |-> "object", items |-> <<report_jsons[1]>>]>>
    ELSE <<[kind |-> "json", shape |-> "array", items |-> report_jsons]>>

\* a variant that returns the exit code of the last report
ExitCodeOf_Last(exit_codes) ==
    IF exit_codes # <<>> /\ exit_codes[Len(exit_codes)] = 1 THEN 1 ELSE 0

\* line 95
ExitCodeOf(exit_codes) ==
    IF 1 \in Range(exit_codes) THEN 1 ELSE 0

\* print_reports(scan_reports, args, url): what it prints, and what it returns
print_reports(banner, reports, a, u) ==
    LET st0 == IF a.output = "cli"
               THEN [PState EXCEPT !.out = <<[kind |-> "banner", text |-> banner]>>]
               ELSE PState
        st1 == ReportLoop(st0, reports, a, u, 1)
        o2  == IF a.output = "junitxml" THEN st1.out \o JunitOutput(st1.junit_reports)
               ELSE st1.out
        o3  == IF a.output = "json" THEN o2 \o JsonOutput(st1.report_jsons) ELSE o2
        o4  == IF a.output = "cli" THEN Append(o3, [kind |-> "platform", reports |-> reports])
               ELSE o3
    IN  [out |-> o4, exit_code |-> ExitCodeOf(st1.exit_codes)]

\* the reports handed to print_reports
PrintedReports ==
    {Report(<<"e">>),
     [Report(<<"f">>) EXCEPT
        !.failed_checks = <<MkRecord(1, <<"A">>, "aws_s3_bucket.r1", "FAILED")>>],
     [Report(<<"p">>) EXCEPT
        !.passed_checks = <<MkRecord(2, <<"A">>, "aws_s3_bucket.r1", "PASSED")>>],
     [Report(<<"s">>) EXCEPT
        !.failed_checks = <<MkRecord(3, <<"B">>, "aws_s3_bucket.r2", "FAILED")>>,
        !.skipped_checks = <<MkRecord(4, <<"A">>, "aws_s3_bucket.r2", "SKIPPED")>>]}

Outputs == OUTPUT_CHOICES \cup {"sarif"}

Banner == "checkov"

InitPrint ==
    /\ scan_reports \in UNION {[1..n -> PrintedReports] : n \in 0..MaxReports}
    /\ args \in [output : Outputs, soft_fail : BOOLEAN, quiet : BOOLEAN, compact : BOOLEAN]
    /\ url \in {NoneStr, "https://bridgecrew.cloud"}
    /\ out = <<>>
    /\ exit_code = 0
    /\ pstatus = "start"
    /\ IdleHandle /\ IdleFilter /\ IdleRun

PrintReports ==
    /\ pstatus = "start"
    /\ LET r == print_reports(Banner, scan_reports, args, url)
       IN  /\ out' = r.out
           /\ exit_code' = r.exit_code
    /\ pstatus' = "returned"
    /\ UNCHANGED <<scan_reports, args, url>>
    /\ UNCHANGED <<handleVars, filterVars, runVars>>

NextPrint == PrintReports

SpecPrint == InitPrint /\ [][NextPrint]_vars

----------------------------------------------------------------------------
(* filter_runner_framework *)

ALL == <<"a", "l", "l">>

\* a variant that inserts each kept runner at the front
RECURSIVE FilterLoop_Prepends(_, _, _, _)
FilterLoop_Prepends(filtered_runners, rs, framework, i) ==
    IF i > Len(rs) THEN filtered_runners
    ELSE IF In(rs[i].check_type, framework)
    THEN FilterLoop_Prepends(<<rs[i]>> \o filtered_runners, rs, framework, i + 1)
    ELSE FilterLoop_Prepends(filtered_runners, rs, framework, i + 1)

\* lines 105-108
RECURSIVE FilterLoop(_, _, _, _)
FilterLoop(filtered_runners, rs, framework, i) ==
    IF i > Len(rs) THEN filtered_runners
    ELSE IF In(rs[i].check_type, framework)
    THEN FilterLoop(Append(filtered_runners, rs[i]), rs, framework, i + 1)
    ELSE FilterLoop(filtered_runners, rs, framework, i + 1)

\* the value of self.runners when filter_runner_framework returns
filter_runner_framework(rs, rf) ==
    IF rf = NoneObj THEN rs
    ELSE IF rf.framework = NoneSeq THEN rs
    ELSE IF rf.framework = ALL THEN rs
    ELSE FilterLoop(<<>>, rs, rf.framework, 1)

\* check types of the runners, and framework selections: a framework selection
\* is a str, so <<"t", "p">> selects the check types <<"t">>, <<"p">> and <<"t", "p">>
CheckTypes == {<<"t">>, <<"k">>, <<"t", "p">>}
Frameworks == {<<"t">>, <<"k">>, <<"t", "p">>}

RunnerFilters ==
    {NoneObj} \cup [framework : {NoneSeq, ALL} \cup Frameworks]

\* the runners handed to the constructor: the one at position i has identity i
RunnersOf(types) == [i \in DOMAIN types |-> [oid |-> i, check_type |-> types[i]]]

InitFilter ==
    /\ \E types \in UNION {[1..n -> CheckTypes] : n \in 0..MaxRunners} :
          runners = RunnersOf(types)
    /\ runners0 = runners
    /\ runner_filter \in RunnerFilters
    /\ ncalls = 0
    /\ IdleHandle /\ IdlePrint /\ IdleRun

FilterRunnerFramework ==
    /\ ncalls < MaxCalls
    /\ runners' = filter_runner_framework(runners, runner_filter)
    /\ ncalls' = ncalls + 1
    /\ UNCHANGED <<runner_filter, runners0>>
    /\ UNCHANGED <<handleVars, printVars, runVars>>

NextFilter == FilterRunnerFramework

SpecFilter == InitFilter /\ [][NextFilter]_vars

----------------------------------------------------------------------------
(* run *)

\* lines 114-116, over one collection
RECURSIVE GuidelineLoop(_, _, _)
GuidelineLoop(records, guidelines, i) ==
    IF i > Len(records) THEN records
    ELSE IF records[i].check_id \in DOMAIN guidelines
    THEN GuidelineLoop([records EXCEPT ![i].guideline = guidelines[records[i].check_id]],
                       guidelines, i + 1)
    ELSE GuidelineLoop(records, guidelines, i + 1)

enrich_report_with_guidelines(scan_report, guidelines) ==
    [scan_report EXCEPT
        !.failed_checks  = GuidelineLoop(@, guidelines, 1),
        !.passed_checks  = GuidelineLoop(@, guidelines, 1),
        !.skipped_checks = GuidelineLoop(@, guidelines, 1)]

\* what runner.run may return: a Report of the runner's check type
RunnerReports(check_type) ==
    {Report(check_type),
     [Report(check_type) EXCEPT
        !.failed_checks = <<MkRecord(1, <<"A">>, "aws_s3_bucket.r1", "FAILED"),
                            MkRecord(2, <<"B">>, "aws_s3_bucket.r1", "FAILED")>>,
        !.passed_checks = <<MkRecord(3, <<"A">>, "aws_s3_bucket.r2", "PASSED")>>]}

\* what get_enriched_resources may return
RunIndexes ==
    {EmptyDict,
     [r \in {"aws_s3_bucket.r1"} |->
        IndexEntry(r, <<[id |-> <<"B">>, suppress_comment |-> "y"]>>)]}

\* the arguments of run that decide its control flow; a guidelines of None and
\* of {} are both false at line 46
RunArgs ==
    [guidelines : {EmptyDict, [c \in {<<"A">>} |-> "guide A"]},
     repo_root_for_plan_enrichment : {NoneStr, "/repo"}]

Truthy(str) == str # NoneStr /\ str # ""

\* the registry after __init__, at the first line of run
InitRun ==
    /\ \E types \in UNION {[1..n -> CheckTypes] : n \in 0..MaxRunners} :
          /\ \A i, j \in DOMAIN types : i # j => types[i] # types[j]
          /\ runners0 = RunnersOf(types)
    /\ runner_filter \in RunnerFilters
    /\ runners = filter_runner_framework(runners0, runner_filter)
    /\ ncalls = 1
    /\ scan_reports = <<>>
    /\ run_args \in RunArgs
    /\ pc = "for"
    /\ ri = 1
    /\ events = <<>>
    /\ ret = NoneList
    /\ IdleHandle
    /\ args = NoneObj /\ url = NoneStr /\ out = <<>> /\ exit_code = 0 /\ pstatus = "idle"

Call(name) == [call |-> name, runner |-> ri]

\* line 41: the next runner, or line 55
RunFor ==
    /\ pc = "for"
    /\ IF ri <= Len(runners)
       THEN pc' = "run_pre_scan" /\ ret' = ret
       ELSE pc' = "returned" /\ ret' = scan_reports
    /\ UNCHANGED <<ri, events, run_args, scan_reports>>
    /\ UNCHANGED <<handleVars, args, url, out, exit_code, pstatus, filterVars>>

\* line 42
RunPreScan ==
    /\ pc = "run_pre_scan"
    /\ events' = Append(events, Call("run_pre_scan"))
    /\ pc' = "runner.run"
    /\ UNCHANGED <<ri, run_args, ret, scan_reports>>
    /\ UNCHANGED <<handleVars, args, url, out, exit_code, pstatus, filterVars>>

\* lines 43-44: the runner returns a report
RunRunnerReturns ==
    /\ pc = "runner.run"
    /\ events' = Append(events, Call("runner.run"))
    /\ report' \in RunnerReports(runners[ri].check_type)
    /\ pc' = "run_post_scan"
    /\ UNCHANGED <<ri, run_args, ret, scan_reports>>
    /\ UNCHANGED <<enriched_resources, report0, enriched_resources0, report1, hstatus, evals>>
    /\ UNCHANGED <<args, url, out, exit_code, pstatus, filterVars>>

\* lines 43-44: the runner raises, and nothing in run catches it
RunRunnerRaises ==
    /\ pc = "runner.run"
    /\ events' = Append(events, Call("runner.run"))
    /\ pc' = "raised"
    /\ UNCHANGED <<ri, run_args, ret, scan_reports>>
    /\ UNCHANGED <<handleVars, args, url, out, exit_code, pstatus, filterVars>>

\* lines 45-48
RunPostScan ==
    /\ pc = "run_post_scan"
    /\ events' = Append(events, Call("run_post_scan"))
    /\ pc' = IF DOMAIN run_args.guidelines # {} THEN "enrich_report_with_guidelines"
             ELSE IF Truthy(run_args.repo_root_for_plan_enrichment)
             THEN "get_enriched_resources"
             ELSE "append"
    /\ UNCHANGED <<ri, run_args, ret, scan_reports>>
    /\ UNCHANGED <<handleVars, args, url, out, exit_code, pstatus, filterVars>>

\* lines 47-48
RunGuidelines ==
    /\ pc = "enrich_report_with_guidelines"
    /\ events' = Append(events, Call("enrich_report_with_guidelines"))
    /\ report' = enrich_report_with_guidelines(report, run_args.guidelines)
    /\ pc' = IF Truthy(run_args.repo_root_for_plan_enrichment)
             THEN "get_enriched_resources"
             ELSE "append"
    /\ UNCHANGED <<ri, run_args, ret, scan_reports>>
    /\ UNCHANGED <<enriched_resources, report0, enriched_resources0, report1, hstatus, evals>>
    /\ UNCHANGED <<args, url, out, exit_code, pstatus, filterVars>>

\* line 49
RunGetEnrichedResources ==
    /\ pc = "get_enriched_resources"
    /\ events' = Append(events, Call("get_enriched_resources"))
    /\ enriched_resources' \in RunIndexes
    /\ pc' = "enrich_plan_report"
    /\ UNCHANGED <<ri, run_args, ret, scan_reports>>
    /\ UNCHANGED <<report, report0, enriched_resources0, report1, hstatus, evals>>
    /\ UNCHANGED <<args, url, out, exit_code, pstatus, filterVars>>

\* line 50
RunEnrichPlanReport ==
    /\ pc = "enrich_plan_report"
    /\ events' = Append(events, Call("enrich_plan_report"))
    /\ report' = enrich_plan_report(report, enriched_resources)
    /\ pc' = "handle_skipped_checks"
    /\ UNCHANGED <<ri, run_args, ret, scan_reports>>
    /\ UNCHANGED <<enriched_resources, report0, enriched_resources0, report1, hstatus, evals>>
    /\ UNCHANGED <<args, url, out, exit_code, pstatus, filterVars>>

\* line 51: the call returns, or raises and nothing in run catches it
RunHandleSkippedChecks ==
    /\ pc = "handle_skipped_checks"
    /\ events' = Append(events, Call("handle_skipped_checks"))
    /\ LET st == handle_skipped_checks(report, enriched_resources)
       IN  /\ report' = st.report
           /\ enriched_resources' = st.index
           /\ pc' = IF st.raised = "no" THEN "append" ELSE "raised"
    /\ UNCHANGED <<ri, run_args, ret, scan_reports>>
    /\ UNCHANGED <<report0, enriched_resources0, report1, hstatus, evals>>
    /\ UNCHANGED <<args, url, out, exit_code, pstatus, filterVars>>

\* a variant that inserts the report at the front of scan_reports
RunAppend_Prepends ==
    /\ pc = "append"
    /\ events' = Append(events, Call("append"))
    /\ scan_reports' = <<report>> \o scan_reports
    /\ ri' = ri + 1
    /\ pc' = "for"
    /\ UNCHANGED <<run_args, ret>>
    /\ UNCHANGED <<handleVars, args, url, out, exit_code, pstatus, filterVars>>

\* lines 52 and 54
RunAppend ==
    /\ pc = "append"
    /\ events' = Append(events, Call("append"))
    /\ scan_reports' = Append(scan_reports, report)
    /\ ri' = ri + 1
    /\ pc' = "for"
    /\ UNCHANGED <<run_args, ret>>
    /\ UNCHANGED <<handleVars, args, url, out, exit_code, pstatus, filterVars>>

NextRun ==
    \/ RunFor
    \/ RunPreScan
    \/ RunRunnerReturns
    \/ RunRunnerRaises
    \/ RunPostScan
    \/ RunGuidelines
    \/ RunGetEnrichedResources
    \/ RunEnrichPlanReport
    \/ RunHandleSkippedChecks
    \/ RunAppend

SpecRun == InitRun /\ [][NextRun]_vars

----------------------------------------------------------------------------
(* Properties of the enrich / reconcile steps *)

HandleEnded == hstatus \in {"returned", "KeyError", "TypeError", "ValueError"}

Oids(l) == {l[i].oid : i \in DOMAIN l}

\* the record of identity oid in the list l
RecordOf(l, oid) == l[CHOOSE i \in DOMAIN l : l[i].oid = oid]

\* the directive list the index passed in holds for a record: a list, or NoneList
\* when the resource has no entry or the entry holds None
SkipsOf(record) ==
    IF record.resource \in DOMAIN enriched_resources0
    THEN enriched_resources0[record.resource]["skipped_checks"]
    ELSE NoneList

HasList(record) == SkipsOf(record) # NoneList

\* the positions of the directives of the record's resource that match its check_id
Matching(record) ==
    IF HasList(record)
    THEN {j \in DOMAIN SkipsOf(record) : In(record.check_id, SkipsOf(record)[j]["id"])}
    ELSE {}

\* how many times the list l holds x
Count(l, x) == Cardinality({i \in DOMAIN l : l[i] = x})

\* how many records of the pair (check_id, resource) the three collections hold
Occurrences(rep, pair) ==
    LET all == rep.failed_checks \o rep.passed_checks \o rep.skipped_checks
    IN  Cardinality({i \in DOMAIN all : <<all[i].check_id, all[i].resource>> = pair})

PairsIn(rep) ==
    LET all == rep.failed_checks \o rep.passed_checks \o rep.skipped_checks
    IN  {<<all[i].check_id, all[i].resource>> : i \in DOMAIN all}

\* C1: after handle_skipped_checks returns, every record that was in failed and
\* whose resource has a directive matching its check_id is in skipped and not in
\* failed, and every failed record was evaluated against every directive of its
\* resource exactly once.
C1_AllMatchedSkipped ==
    hstatus = "returned" =>
        \A i \in DOMAIN report1.failed_checks :
            LET record == report1.failed_checks[i]
            IN  /\ Matching(record) # {} =>
                      /\ record.oid \in Oids(report.skipped_checks)
                      /\ record.oid \notin Oids(report.failed_checks)
                /\ HasList(record) =>
                      \A j \in DOMAIN SkipsOf(record) : Count(evals, <<record.oid, j>>) = 1

\* C2: whenever handle_skipped_checks has ended, every (check_id, resource) pair
\* of the report is held by exactly one of failed, passed, skipped, once, also
\* when several directives of the resource match the record's check_id.
C2_ExactlyOne ==
    HandleEnded =>
        /\ PairsIn(report) = PairsIn(report0)
        /\ \A pair \in PairsIn(report) : Occurrences(report, pair) = 1

\* C2 witness: a record matched by two directives of its resource was moved to
\* skipped and the call has ended
C2_Witness ==
    /\ HandleEnded
    /\ \E i \in DOMAIN report1.failed_checks :
          /\ Cardinality(Matching(report1.failed_checks[i])) >= 2
          /\ report1.failed_checks[i].oid \in Oids(report.skipped_checks)

\* C3: after handle_skipped_checks returns, a record that was in failed with
\* check_id c, on a resource with a directive {id: c, suppress_comment: x}, is
\* absent from failed and present in skipped with result SKIPPED and
\* suppress_comment x, its other fields unchanged.
C3_Reconciled ==
    hstatus = "returned" =>
        \A i \in DOMAIN report1.failed_checks :
            LET record == report1.failed_checks[i]
            IN  \A j \in Matching(record) :
                    LET skip == SkipsOf(record)[j]
                    IN  skip["id"] = record.check_id =>
                            /\ record.oid \notin Oids(report.failed_checks)
                            /\ record.oid \in Oids(report.skipped_checks)
                            /\ RecordOf(report.skipped_checks, record.oid) =
                                  [record EXCEPT !.check_result =
                                      [result |-> "SKIPPED",
                                       suppress_comment |-> skip["suppress_comment"]]]

\* C4: a failed record whose resource has no index entry, or an entry with an
\* empty or absent directive list, does not make handle_skipped_checks raise,
\* and is still in failed, unchanged, when the call returns.
C4_NoDirectivesUntouched ==
    \A i \in DOMAIN report1.failed_checks :
        LET record == report1.failed_checks[i]
        IN  (HandleEnded /\ (~HasList(record) \/ SkipsOf(record) = <<>>)) =>
                /\ hstatus \notin {"KeyError", "TypeError"}
                /\ hstatus = "returned" => record \in Range(report.failed_checks)

\* the record with the three provenance fields of another
WithProvenanceOf(record, other) ==
    [record EXCEPT !.file_path = other.file_path,
                   !.file_line_range = other.file_line_range,
                   !.code_block = other.code_block]

\* C7: enrich_plan_report changes nothing but file_path, file_line_range and
\* code_block of failed records whose resource has an index entry: a failed
\* record without entry, the passed and skipped records, and the membership and
\* order of the three collections are as before.
C7_EnrichFrame ==
    hstatus = "enriched" =>
        /\ report.passed_checks = report0.passed_checks
        /\ report.skipped_checks = report0.skipped_checks
        /\ report.check_type = report0.check_type
        /\ Len(report.failed_checks) = Len(report0.failed_checks)
        /\ \A i \in DOMAIN report0.failed_checks :
              /\ WithProvenanceOf(report.failed_checks[i], report0.failed_checks[i])
                    = report0.failed_checks[i]
              /\ report0.failed_checks[i].resource \notin DOMAIN enriched_resources0
                    => report.failed_checks[i] = report0.failed_checks[i]
        /\ enriched_resources = enriched_resources0

\* C7 witness: after enrich_plan_report, one failed record has new provenance,
\* another has no index entry, and the report has passed and skipped records
\* whose resources have entries
C7_Witness ==
    /\ hstatus = "enriched"
    /\ \E i, j \in DOMAIN report.failed_checks :
          /\ report.failed_checks[i] # report0.failed_checks[i]
          /\ report.failed_checks[j].resource \notin DOMAIN enriched_resources0
    /\ \E i \in DOMAIN report.passed_checks :
          report.passed_checks[i].resource \in DOMAIN enriched_resources0
    /\ report.skipped_checks # <<>>

----------------------------------------------------------------------------
(* Properties of print_reports *)

\* the events of one kind that print_reports produced
OutOf(kind) == SelectSeq(out, LAMBDA e : e.kind = kind)

HasFailed(rep) == rep.failed_checks # <<>>

\* C5: print_reports returns 1 if and only if soft_fail is false and at least
\* one report of the sequence, empty or not, has a failed record; otherwise 0.
C5_ExitCodeOr ==
    pstatus = "returned" =>
        /\ exit_code \in {0, 1}
        /\ exit_code = 1 <=>
              (~args.soft_fail /\ \E i \in DOMAIN scan_reports : HasFailed(scan_reports[i]))

\* C5 witness: print_reports returned 1 for a sequence whose last report has no
\* failed record and whose first has one
C5_Witness ==
    /\ pstatus = "returned"
    /\ exit_code = 1
    /\ Len(scan_reports) >= 2
    /\ HasFailed(scan_reports[1])
    /\ ~HasFailed(scan_reports[Len(scan_reports)])

\* C6 as claimed: in json mode one report in the collection is emitted as a
\* single object, two or more as an array with one element per report, in order.
C6_UnwrapByCollectionCount ==
    (pstatus = "returned" /\ args.output = "json") =>
        LET json == OutOf("json")
        IN  /\ Len(json) = 1
            /\ Len(scan_reports) = 1 =>
                  /\ json[1].shape = "object"
                  /\ json[1].items = <<get_dict(scan_reports[1], args.quiet)>>
            /\ Len(scan_reports) >= 2 =>
                  /\ json[1].shape = "array"
                  /\ json[1].items =
                        [i \in DOMAIN scan_reports |-> get_dict(scan_reports[i], args.quiet)]

\* the reports that are not empty, in collection order
NonEmptyReports == SelectSeq(scan_reports, LAMBDA r : ~is_empty(r))

\* C6 as amended: in json mode the reports that are not empty are emitted, as a
\* single object when there is exactly one of them, and otherwise (none, two or
\* more) as an array with one element per such report, in collection order.
C6_UnwrapByNonEmptyCount ==
    (pstatus = "returned" /\ args.output = "json") =>
        LET json == OutOf("json")
        IN  /\ Len(json) = 1
            /\ out = json
            /\ Len(NonEmptyReports) = 1 =>
                  /\ json[1].shape = "object"
                  /\ json[1].items = <<get_dict(NonEmptyReports[1], args.quiet)>>
            /\ Len(NonEmptyReports) # 1 =>
                  /\ json[1].shape = "array"
                  /\ json[1].items =
                        [i \in DOMAIN NonEmptyReports |-> get_dict(NonEmptyReports[i], args.quiet)]

\* C6 witness: json mode, an empty report among three, and an array of the two others
C6_Witness ==
    /\ pstatus = "returned"
    /\ args.output = "json"
    /\ Len(scan_reports) = 3
    /\ Len(NonEmptyReports) = 2
    /\ OutOf("json")[1].shape = "array"
    /\ Len(OutOf("json")[1].items) = 2

\* C9: with an output selector outside OUTPUT_CHOICES print_reports renders nothing.
C9_UnrecognizedRendersNothing ==
    (pstatus = "returned" /\ args.output \notin OUTPUT_CHOICES) => out = <<>>

----------------------------------------------------------------------------
(* Properties of filter_runner_framework *)

FilterIsNoOp ==
    \/ runner_filter = NoneObj
    \/ runner_filter.framework = NoneSeq
    \/ runner_filter.framework = ALL

\* the runners of the constructor that the framework selection includes, in order
Selected ==
    IF FilterIsNoOp THEN runners0
    ELSE SelectSeq(runners0, LAMBDA r : In(r.check_type, runner_filter.framework))

\* C8: after one call of filter_runner_framework and after every further call
\* the runners are the same: all of them with no filter, no framework or the
\* framework 'all', and otherwise exactly those whose check_type is in the
\* framework selection, in their original order.
C8_FilterIdempotent ==
    ncalls >= 1 => runners = Selected

\* C8 witness: a second call has returned, two runners were kept in order and
\* one was dropped
C8_Witness ==
    /\ ncalls = 2
    /\ Len(runners) = 2
    /\ Len(runners0) = 3
    /\ runners[1].check_type # runners[2].check_type

----------------------------------------------------------------------------
(* Properties of run *)

Enriching == Truthy(run_args.repo_root_for_plan_enrichment)

\* the calls that run makes for the runner at position i, in order
CallsFor(i) ==
    LET c(name) == [call |-> name, runner |-> i]
    IN  <<c("run_pre_scan"), c("runner.run"), c("run_post_scan")>>
        \o (IF Enriching
            THEN <<c("get_enriched_resources"), c("enrich_plan_report"),
                   c("handle_skipped_checks")>>
            ELSE <<>>)
        \o <<c("append")>>

RECURSIVE CallsUpTo(_)
CallsUpTo(n) == IF n = 0 THEN <<>> ELSE CallsUpTo(n - 1) \o CallsFor(n)

IsPrefix(s, t) == Len(s) <= Len(t) /\ SubSeq(t, 1, Len(s)) = s

\* the calls made so far, without the guideline step
OrderedCalls == SelectSeq(events, LAMBDA e : e.call # "enrich_report_with_guidelines")

\* C10: in one call of run on a fresh registry the calls are made runner by
\* runner, each runner's in the order pre-scan hook, runner.run, post-scan hook,
\* (with a plan-enrichment root) index build, enrich_plan_report,
\* handle_skipped_checks, append; what is returned holds one report per
\* surviving runner in invocation order; after a raise nothing is returned.
C10_RunOrder ==
    pc # "idle" =>
        /\ IsPrefix(OrderedCalls, CallsUpTo(Len(runners)))
        /\ pc = "returned" =>
              /\ OrderedCalls = CallsUpTo(Len(runners))
              /\ Len(ret) = Len(runners)
              /\ \A i \in DOMAIN runners : ret[i].check_type = runners[i].check_type
        /\ pc # "returned" => ret = NoneList

\* C10 witness: run returned the reports of two runners after enriching and
\* reconciling, the second with a record moved to skipped
C10_Witness ==
    /\ pc = "returned"
    /\ Len(runners) >= 2
    /\ Enriching
    /\ ret[2].skipped_checks # <<>>

\* a run that a raising runner aborted after an earlier report was accumulated
C10_RaiseReached ==
    /\ pc = "raised"
    /\ scan_reports # <<>>
    /\ events[Len(events)].call = "runner.run"

====
